---- MODULE Spec2Model ----
\* SillyTavern-MCP-Client: the push-channel JSON-RPC client (McpSseClient) and
\* the server/tool manager (MCPClient), as state machines.
EXTENDS Naturals, Integers, Sequences, FiniteSets, TLC

\* ---------------------------------------------------------------- bounds
\* Request records alive at once on one channel (in flight, pending or orphaned).
MaxRequests == 2
\* Largest value Date.now() takes; ids are drawn from 0..MaxClock.
MaxClock == 1
\* MCPClient.connect calls that may be under way at once.
MaxCalls == 2
\* McpSseClient objects created over a run.
MaxClients == 3
\* Manager handlers (UI event handlers, the startup call) suspended at once.
MaxHandlers == 2

\* ------------------------------------------------------------- variables
VARIABLES
  eventSource,      \* McpSseClient.#eventSource: TRUE = an EventSource, FALSE = null
  pendingRequests,  \* McpSseClient.#pendingRequests: id -> slot of the request whose closures it holds
  requests,         \* the promises created by sendJsonRpcRequest, by slot
  now,              \* Date.now()
  event,            \* the channel handler that ran last
  mcpEnabled,       \* context.extensionSettings.mcp.enabled
  connectedServers, \* MCPClient.#connectedServers (its keys)
  serverTools,      \* MCPClient.#serverTools: name -> tool list or NoCache
  hostTools,        \* tool ids the host has registered (registerFunctionTool / unregisterFunctionTool)
  calls,            \* host calls and plugin requests issued by the handler step that ran last, in order
  task,             \* the manager handler suspended in its loop over servers
  lastOp,           \* the manager handler step that ran last, with its arguments and result
  sseClients,       \* MCPClient.#sseClients: name -> the McpSseClient stored for it
  sseMade,          \* the McpSseClient objects created so far: the server each was made for
  sseOpen,          \* the McpSseClient objects whose #eventSource is set
  sseCalls,         \* the MCPClient.connect calls under way, each at one of its awaits
  handlers,         \* the manager handlers running side by side, each suspended in its loop or done
  persisted,        \* the disabled-server set the plugin stored last
  refused           \* whether the plugin has refused a start or stop request so far

channelVars == <<eventSource, pendingRequests, requests, now, event>>
handlerVars == <<handlers, persisted, refused>>
managerVars == <<mcpEnabled, serverTools, hostTools, calls, task, lastOp, handlerVars>>
sseVars == <<sseClients, sseMade, sseOpen, sseCalls>>
clientVars == <<mcpEnabled, connectedServers, serverTools, hostTools, calls, task, lastOp,
                sseClients, sseMade, sseOpen, sseCalls, handlerVars>>
vars == <<eventSource, pendingRequests, requests, now, event,
          mcpEnabled, connectedServers, serverTools, hostTools, calls, task, lastOp,
          sseClients, sseMade, sseOpen, sseCalls, handlers, persisted, refused>>

\* ===================================================== McpSseClient (channel)

Slots == 1..MaxRequests
Ids == 0..MaxClock

\* What a JSON-RPC result member may be: missing, or a document.
Results == {"absent", "doc"}

NoRequest ==
  [method |-> "none", id |-> 0, fetch |-> "none", timer |-> "none",
   outcome |-> "none", value |-> "none", settles |-> 0, answered |-> FALSE]

\* #requestTimeout: the delay the timer is armed with.
requestTimeout == 30000

IsSpecialMethod(method) == method = "initialize" \/ method = "shutdown"

\* A slot whose promise nothing can touch any more: it is settled, its outbound
\* call has returned, its timer is not armed and no pending entry holds it.
Finished(i) ==
  /\ requests[i].method # "none"
  /\ requests[i].outcome # "none"
  /\ requests[i].fetch # "inflight"
  /\ requests[i].timer # "armed"
  /\ \A id \in DOMAIN pendingRequests : pendingRequests[id] # i

\* The request table with the finished promises dropped: nothing refers to
\* them any more, so every handler starts from this table.
Live == [i \in Slots |-> IF Finished(i) THEN NoRequest ELSE requests[i]]

Free(i) == Live[i].method = "none"
HasFreeSlot == \E i \in Slots : Free(i)
FreeSlot == CHOOSE i \in Slots : Free(i) /\ \A j \in Slots : Free(j) => i <= j

\* The slots whose closures the pending map holds.
Held == {pendingRequests[id] : id \in DOMAIN pendingRequests}

\* A promise's resolve/reject: the first call settles it, later calls are no-ops.
Settle(r, outcome, value) ==
  IF r.outcome = "none"
  THEN [r EXCEPT !.outcome = outcome, !.value = value, !.settles = r.settles + 1]
  ELSE [r EXCEPT !.settles = r.settles + 1]

\* Map.delete(id)
MapDelete(m, k) == [x \in (DOMAIN m) \ {k} |-> m[x]]
\* Map.set(id, v)
MapSet(m, k, v) == [x \in (DOMAIN m) \cup {k} |-> IF x = k THEN v ELSE m[x]]

EmptyMap == [x \in {} |-> 0]

NoMessage == [kind |-> "none", id |-> 0, error |-> FALSE, result |-> "absent"]

\* The record of the step taken last: which handler ran, on which slot, with
\* which message, and which slots the pending map held when it started.
Event(kind, slot, msg, held) == [kind |-> kind, slot |-> slot, msg |-> msg, held |-> held]

\* request = {jsonrpc, id: Date.now(), method, params}; new Promise(...) whose
\* async body has issued the POST and is suspended on it.
NewRequest(method) ==
  [method |-> method, id |-> now, fetch |-> "inflight", timer |-> "none",
   outcome |-> "none", value |-> "none", settles |-> 0, answered |-> FALSE]

\* sendJsonRpcRequest(method, params) as listTools, callTool, listResources,
\* listResourceTemplates and readResource call it (ignoreConnectionCheck false).
Send(method) ==
  /\ eventSource
  /\ HasFreeSlot
  /\ requests' = [Live EXCEPT ![FreeSlot] = NewRequest(method)]
  /\ event' = Event("send", 0, NoMessage, {})
  /\ UNCHANGED <<eventSource, pendingRequests, now>>
  /\ UNCHANGED clientVars

\* The same call on a channel that is not open, were the connection check
\* skipped as it is for initialize and shutdown: the request is built and posted.
SendUnchecked ==
  /\ ~eventSource
  /\ HasFreeSlot
  /\ requests' = [Live EXCEPT ![FreeSlot] = NewRequest("tools/list")]
  /\ event' = Event("sendThrows", 0, NoMessage, {})
  /\ UNCHANGED <<eventSource, pendingRequests, now>>
  /\ UNCHANGED clientVars

\* The same call on a channel that is not open: throws 'Not connected' before
\* anything is built or dispatched.
SendNotConnected ==
  /\ ~eventSource
  /\ requests' = Live
  /\ event' = Event("sendThrows", 0, NoMessage, {})
  /\ UNCHANGED <<eventSource, pendingRequests, now>>
  /\ UNCHANGED clientVars

\* The POST returned with response.ok, were initialize and shutdown handled
\* like every other method: the timer armed and the entry registered.
FetchOkNoSpecial(i) ==
  /\ requests[i].fetch = "inflight"
  /\ requests' = [Live EXCEPT ![i] = [requests[i] EXCEPT !.fetch = "ok", !.timer = "armed"]]
  /\ pendingRequests' = MapSet(pendingRequests, requests[i].id, i)
  /\ event' = Event("fetchOk", 0, NoMessage, {})
  /\ UNCHANGED <<eventSource, now>>
  /\ UNCHANGED clientVars

\* The POST of slot i returned with response.ok.
FetchOk(i) ==
  /\ requests[i].fetch = "inflight"
  /\ IF IsSpecialMethod(requests[i].method)
     THEN /\ requests' = [Live EXCEPT
                ![i] = Settle([requests[i] EXCEPT !.fetch = "ok"], "resolved", "success")]
          /\ UNCHANGED pendingRequests
     ELSE /\ requests' = [Live EXCEPT ![i] = [requests[i] EXCEPT !.fetch = "ok", !.timer = "armed"]]
          /\ pendingRequests' = MapSet(pendingRequests, requests[i].id, i)
  /\ event' = Event("fetchOk", 0, NoMessage, {})
  /\ UNCHANGED <<eventSource, now>>
  /\ UNCHANGED clientVars

\* The POST of slot i threw or returned a non-OK status: the catch block.
FetchFail(i) ==
  /\ requests[i].fetch = "inflight"
  /\ LET id == requests[i].id
         has == id \in DOMAIN pendingRequests
         j == IF has THEN pendingRequests[id] ELSE i
         cleared == IF has
                    THEN [Live EXCEPT ![j] = [requests[j] EXCEPT !.timer = "cleared"]]
                    ELSE Live
     IN /\ requests' = [cleared EXCEPT
                ![i] = Settle([cleared[i] EXCEPT !.fetch = "failed"], "httpError", "none")]
        /\ pendingRequests' = IF has THEN MapDelete(pendingRequests, id) ELSE pendingRequests
  /\ event' = Event("fetchFail", 0, NoMessage, {})
  /\ UNCHANGED <<eventSource, now>>
  /\ UNCHANGED clientVars

\* Inbound push messages: a body JSON.parse rejects, a document that is no
\* JSON-RPC 2.0 response, or a response envelope {jsonrpc, id, result? | error}.
Envelopes ==
  [kind : {"response"}, id : Ids, error : BOOLEAN, result : Results]
Messages ==
  Envelopes \cup {[kind |-> "malformed", id |-> 0, error |-> FALSE, result |-> "absent"],
                  [kind |-> "notRpc", id |-> 0, error |-> FALSE, result |-> "absent"]}

\* The request table once message m was delivered: every request whose id
\* the message carries has had a response arrive for it.
Heard(m) ==
  [i \in Slots |->
     IF m.kind = "response" /\ Live[i].method # "none" /\ Live[i].id = m.id
     THEN [Live[i] EXCEPT !.answered = TRUE]
     ELSE Live[i]]

\* eventSource.onmessage, with the delete of the matched entry left out.
OnMessageKeepsEntry(m) ==
  /\ eventSource
  /\ IF m.kind = "response" /\ m.id \in DOMAIN pendingRequests
     THEN LET j == pendingRequests[m.id]
              r == [Heard(m)[j] EXCEPT !.timer = "cleared"]
          IN /\ requests' = [Heard(m) EXCEPT
                     ![j] = IF m.error THEN Settle(r, "rpcError", "none")
                                       ELSE Settle(r, "resolved", m.result)]
             /\ UNCHANGED pendingRequests
             /\ event' = Event("message", j, m, Held)
     ELSE /\ requests' = Heard(m)
          /\ UNCHANGED pendingRequests
          /\ event' = Event("message", 0, NoMessage, {})
  /\ UNCHANGED <<eventSource, now>>
  /\ UNCHANGED clientVars

\* eventSource.onmessage, were a message it cannot use to take the channel
\* down.
OnMessageCrashes(m) ==
  /\ eventSource
  /\ IF m.kind = "response" /\ m.id \in DOMAIN pendingRequests
     THEN LET j == pendingRequests[m.id]
              r == [Heard(m)[j] EXCEPT !.timer = "cleared"]
          IN /\ requests' = [Heard(m) EXCEPT
                     ![j] = IF m.error THEN Settle(r, "rpcError", "none")
                                       ELSE Settle(r, "resolved", m.result)]
             /\ pendingRequests' = MapDelete(pendingRequests, m.id)
             /\ event' = Event("message", j, m, Held)
             /\ UNCHANGED eventSource
     ELSE /\ requests' = Heard(m)
          /\ UNCHANGED pendingRequests
          /\ event' = Event("message", 0, NoMessage, {})
          /\ eventSource' = FALSE
  /\ UNCHANGED now
  /\ UNCHANGED clientVars

\* eventSource.onmessage
OnMessage(m) ==
  /\ eventSource
  /\ IF m.kind = "response" /\ m.id \in DOMAIN pendingRequests
     THEN LET j == pendingRequests[m.id]
              r == [Heard(m)[j] EXCEPT !.timer = "cleared"]
          IN /\ requests' = [Heard(m) EXCEPT
                     ![j] = IF m.error THEN Settle(r, "rpcError", "none")
                                       ELSE Settle(r, "resolved", m.result)]
             /\ pendingRequests' = MapDelete(pendingRequests, m.id)
             /\ event' = Event("message", j, m, Held)
     ELSE /\ requests' = Heard(m)
          /\ UNCHANGED pendingRequests
          /\ event' = Event("message", 0, NoMessage, {})
  /\ UNCHANGED <<eventSource, now>>
  /\ UNCHANGED clientVars

\* The setTimeout callback of slot i.
TimerFire(i) ==
  /\ requests[i].timer = "armed"
  /\ LET id == requests[i].id
         r == [requests[i] EXCEPT !.timer = "fired"]
     IN IF id \in DOMAIN pendingRequests
        THEN /\ pendingRequests' = MapDelete(pendingRequests, id)
             /\ requests' = [Live EXCEPT ![i] = Settle(r, "timeout", "none")]
        ELSE /\ requests' = [Live EXCEPT ![i] = r]
             /\ UNCHANGED pendingRequests
  /\ event' = Event("timer", i, NoMessage, {})
  /\ UNCHANGED <<eventSource, now>>
  /\ UNCHANGED clientVars

\* The body of close() past its guard: the shutdown request is dispatched,
\* eventSource is closed and nulled, then every entry of the pending map is
\* disarmed, rejected and deleted.
CloseBody(kind) ==
  /\ HasFreeSlot
  /\ LET s == FreeSlot
         AfterClose(i) ==
           IF i \in Held
           THEN Settle([Live[i] EXCEPT !.timer = "cleared"], "closed", "none")
           ELSE Live[i]
     IN requests' = [i \in Slots |->
                       IF i = s THEN NewRequest("shutdown") ELSE AfterClose(i)]
  /\ pendingRequests' = EmptyMap
  /\ eventSource' = FALSE
  /\ event' = Event(kind, 0, NoMessage, Held)
  /\ UNCHANGED now
  /\ UNCHANGED clientVars

\* close() without its guard: the shutdown request goes out again.
CloseAgain ==
  IF eventSource THEN CloseBody("close")
  ELSE /\ HasFreeSlot
       /\ requests' = [Live EXCEPT ![FreeSlot] = NewRequest("shutdown")]
       /\ event' = Event("closeNoop", 0, NoMessage, {})
       /\ UNCHANGED <<eventSource, pendingRequests, now>>
       /\ UNCHANGED clientVars

\* close()
Close ==
  IF eventSource THEN CloseBody("close")
  ELSE /\ requests' = Live
       /\ event' = Event("closeNoop", 0, NoMessage, {})
       /\ UNCHANGED <<eventSource, pendingRequests, now>>
       /\ UNCHANGED clientVars

\* eventSource.onerror
OnError ==
  /\ eventSource
  /\ CloseBody("error")

\* connect() without its guard: the initialize request goes out again.
ConnectReopens ==
  /\ HasFreeSlot
  /\ eventSource' = TRUE
  /\ requests' = [Live EXCEPT ![FreeSlot] = NewRequest("initialize")]
  /\ event' = Event(IF eventSource THEN "connectNoop" ELSE "connect", 0, NoMessage, {})
  /\ UNCHANGED <<pendingRequests, now>>
  /\ UNCHANGED clientVars

\* connect(): no-op when already open, else a new EventSource and the
\* initialize request.
Connect ==
  IF eventSource
  THEN /\ requests' = Live
       /\ event' = Event("connectNoop", 0, NoMessage, {})
       /\ UNCHANGED <<eventSource, pendingRequests, now>>
       /\ UNCHANGED clientVars
  ELSE /\ HasFreeSlot
       /\ eventSource' = TRUE
       /\ requests' = [Live EXCEPT ![FreeSlot] = NewRequest("initialize")]
       /\ event' = Event("connect", 0, NoMessage, {})
       /\ UNCHANGED <<pendingRequests, now>>
       /\ UNCHANGED clientVars

\* Date.now() advances.
Tick ==
  /\ now < MaxClock
  /\ now' = now + 1
  /\ requests' = Live
  /\ event' = Event("tick", 0, NoMessage, {})
  /\ UNCHANGED <<eventSource, pendingRequests>>
  /\ UNCHANGED clientVars

\* listTools(): response.result || { tools: [] }
ListToolsResult(r) == IF r.value = "absent" THEN "emptyTools" ELSE r.value

\* ----------------------------------------------------- channel properties

\* A request that waits for a correlated reply on the push channel.
Regular(i) == requests[i].method # "none" /\ ~IsSpecialMethod(requests[i].method)

\* C1: every dispatched request gets exactly one of resolve, reject-by-error,
\* reject-by-timeout, reject-by-close, exactly once: its resolve/reject is
\* never invoked a second time, and once nothing is left that could settle it
\* (the outbound call returned and its timer is no longer armed) it is settled.
C1_ExactlyOneOutcome ==
  \A i \in Slots :
    requests[i].method # "none" =>
      /\ requests[i].settles <= 1
      /\ (requests[i].fetch # "inflight" /\ requests[i].timer # "armed")
           => requests[i].outcome # "none"

\* C4: close() rejects every request of the pending map with Closed and
\* disarms its timeout, and no request timer is left to fire afterwards: no
\* timer is armed on a closed channel.
C4_CloseRejectsAllNoTimerAfter ==
  /\ event.kind \in {"close", "error"} =>
       \A i \in event.held :
         requests[i].outcome = "closed" /\ requests[i].timer = "cleared"
  /\ ~eventSource => \A i \in Slots : requests[i].timer # "armed"

\* C5: whenever the channel is closed (event source released) its pending
\* map is empty.
C5_NoPendingSurvivesClose ==
  ~eventSource => DOMAIN pendingRequests = {}

\* C6: two requests that are unsettled at the same time on one channel carry
\* different correlation ids.
C6_UniquePendingIds ==
  \A i, j \in Slots :
    (i # j /\ Regular(i) /\ Regular(j)
       /\ requests[i].outcome = "none" /\ requests[j].outcome = "none")
      => requests[i].id # requests[j].id

\* C7: an inbound response whose id matches a pending entry disarms that
\* request's timeout, resolves it with the result (rejects it when an error
\* object is present), settles it exactly once and removes the entry; when it
\* was the only outstanding request the pending map is empty afterwards.
C7_ResponseSettlesMatched ==
  (event.kind = "message" /\ event.slot # 0) =>
    LET j == event.slot
        m == event.msg
    IN /\ requests[j].timer = "cleared"
       /\ requests[j].outcome = (IF m.error THEN "rpcError" ELSE "resolved")
       /\ requests[j].settles = 1
       /\ (~m.error => ListToolsResult(requests[j])
                         = (IF m.result = "absent" THEN "emptyTools" ELSE m.result))
       /\ m.id \notin DOMAIN pendingRequests
       /\ (event.held = {j} => pendingRequests = EmptyMap)

\* C7 witness: the only outstanding request, a tools/list call, was resolved
\* by its response with the document the response carried; its timer is
\* disarmed and nothing is left in the pending map.
C7_Witness ==
  /\ event.kind = "message"
  /\ event.slot # 0
  /\ event.held = {event.slot}
  /\ requests[event.slot].method = "tools/list"
  /\ requests[event.slot].outcome = "resolved"
  /\ requests[event.slot].value = "doc"
  /\ pendingRequests = EmptyMap

\* C8: when a request's timeout fires and no response carrying its id has
\* arrived, the call rejects with Timeout and the pending map no longer
\* contains the request's id.
C8_TimeoutRejects ==
  (event.kind = "timer" /\ ~requests[event.slot].answered) =>
    /\ requests[event.slot].outcome = "timeout"
    /\ requests[event.slot].id \notin DOMAIN pendingRequests

\* C16: connect() on a channel that is already open returns true and changes
\* nothing: no new EventSource, no initialize request, no request touched.
C16_OpenIdempotent ==
  [][event'.kind = "connectNoop" =>
       /\ eventSource /\ eventSource'
       /\ pendingRequests' = pendingRequests
       /\ requests' = Live
       /\ now' = now]_vars

\* C16 witness: a connect() on an open channel that holds a pending request,
\* and no initialize request about.
C16_Witness ==
  /\ event.kind = "connectNoop"
  /\ eventSource
  /\ \A i \in Slots : requests[i].method # "initialize"
  /\ \E i \in Held : Regular(i) /\ requests[i].timer = "armed" /\ requests[i].outcome = "none"

\* C17: after the EventSource's error event the channel is closed and every
\* request dispatched and not yet settled has been failed, the ones the
\* pending map held with the connection's loss.
C17_ErrorFailsAllPending ==
  event.kind = "error" =>
    /\ ~eventSource
    /\ \A i \in Slots : Regular(i) => requests[i].outcome # "none"
    /\ \A i \in event.held : requests[i].outcome = "closed"

\* C18: close() on a channel that is already closed, by close() or by the
\* error handler, changes nothing: nothing is rejected, no shutdown request is
\* sent, the EventSource stays released; and the error handler leaves the
\* channel closed.
C18_CloseRepeatable ==
  [][/\ event'.kind = "closeNoop" =>
          /\ ~eventSource /\ ~eventSource'
          /\ pendingRequests' = pendingRequests
          /\ requests' = Live
          /\ now' = now
     /\ event'.kind = "error" => ~eventSource']_vars

\* C18 witness: a second close() while the first one's shutdown request is
\* still in flight, the only one there is.
C18_Witness ==
  /\ event.kind = "closeNoop"
  /\ ~eventSource
  /\ Cardinality({i \in Slots : requests[i].method = "shutdown"}) = 1
  /\ \E i \in Slots : requests[i].method = "shutdown" /\ requests[i].fetch = "inflight"

\* C19: an initialize or shutdown request is unsettled while its POST is in
\* flight, resolved once the POST returned OK, rejected once it failed, and
\* never has a timer or an entry of the pending map.
C19_SpecialMethodsNeverPending ==
  \A i \in Slots : IsSpecialMethod(requests[i].method) =>
    /\ requests[i].timer = "none"
    /\ i \notin Held
    /\ requests[i].settles <= 1
    /\ requests[i].fetch = "inflight" => requests[i].outcome = "none"
    /\ requests[i].fetch = "ok" =>
         requests[i].outcome = "resolved" /\ requests[i].value = "success"
    /\ requests[i].fetch = "failed" => requests[i].outcome = "httpError"

\* C19 witness: an initialize request just resolved by its POST's return,
\* with a regular request pending beside it.
C19_Witness ==
  /\ event.kind = "fetchOk"
  /\ \E i \in Slots :
       /\ requests[i].method = "initialize"
       /\ requests[i].fetch = "ok"
       /\ requests[i].outcome = "resolved"
       /\ requests[i].settles = 1
       /\ Held # {}
       /\ i \notin Held

\* C20: a push message that is malformed, no JSON-RPC response, or carries an
\* id the pending map does not have leaves the channel open and the pending
\* map, every timer and every promise as they were.
C20_UnmatchedDropped ==
  [][(event'.kind = "message" /\ event'.slot = 0) =>
       /\ eventSource'
       /\ pendingRequests' = pendingRequests
       /\ now' = now
       /\ \A i \in Slots :
            [requests'[i] EXCEPT !.answered = FALSE] = [Live[i] EXCEPT !.answered = FALSE]]_vars

\* C20 witness: a message was dropped on an open channel that holds a pending
\* request, still armed and unsettled.
C20_Witness ==
  /\ event.kind = "message" /\ event.slot = 0
  /\ eventSource
  /\ \E i \in Held : requests[i].timer = "armed" /\ requests[i].outcome = "none"

\* C21: a request for which a response carrying its id has arrived on the push
\* channel is settled by that response (resolved, or rejected with the error
\* it carries), whether the response came before or after the request's POST
\* returned.
C21_ResponseDeliveredAnyOrder ==
  \A i \in Slots :
    (Regular(i) /\ requests[i].answered) =>
      requests[i].outcome \in {"resolved", "rpcError"}

\* C35: sendJsonRpcRequest of a regular method on a channel without an
\* EventSource (never opened, or closed) fails at once: no POST goes out, no
\* entry is added to the pending map and no timer is armed.
C35_SendOnClosedChannelFails ==
  [][event'.kind = "sendThrows" =>
       /\ ~eventSource /\ ~eventSource'
       /\ \A i \in Slots :
            /\ requests'[i].fetch = "inflight" => requests'[i] = requests[i]
            /\ requests'[i].timer = "armed" => requests'[i] = requests[i]
       /\ pendingRequests' = pendingRequests]_vars

\* C35 witness: the call failed on a channel that had been open and was
\* closed, the shutdown request of that close still in flight.
C35_Witness ==
  /\ event.kind = "sendThrows"
  /\ ~eventSource
  /\ \E i \in Slots : requests[i].method = "shutdown" /\ requests[i].fetch = "inflight"

\* ======================================================= MCPClient (manager)

\* Server names and tool names the user and the servers may choose; ids are
\* built from them by concatenation, so "s"/"t_a" and "s_t"/"a" share an id.
ServerNames == {"s", "s_t"}
ToolSeq == <<"a", "t_a">>
ToolNames == {ToolSeq[i] : i \in 1..Len(ToolSeq)}

\* const toolId = `mcp_${serverName}_${tool.name}`
ToolId(serverName, toolName) == "mcp_" \o serverName \o "_" \o toolName

\* McpTool._enabled as a server may send it: true, false, or not at all.
Flags == {"true", "false", "undefined"}

\* The tools each server may report: "s" either tool, "s_t" only "a".
Offers(name) == IF name = "s" THEN ToolNames ELSE {"a"}

\* A tool list: the tools a server reports (names unique), with their markers.
ToolLists(name) == UNION {[T -> Flags] : T \in SUBSET Offers(name)}

\* What GET .../list-tools may yield: a tool array, or no usable answer (a
\* non-OK status, a body that is no array, a thrown fetch).
ToolResponses(name) ==
  {[ok |-> TRUE, tools |-> l] : l \in ToolLists(name)} \cup {[ok |-> FALSE, tools |-> <<>>]}

\* `tool._enabled` read as a condition.
Truthy(flag) == flag = "true"

\* HTTP statuses the plugin may answer a registry request with.
Statuses == {200, 404, 500, 503}

\* response.ok, the one thing the manager reads of a status.
ResponseOk(status) == status \in 200..299

\* The manager's own state while a handler runs, with the host calls the
\* handler has issued so far.
Locals ==
  [connected |-> connectedServers, tools |-> serverTools, host |-> hostTools,
   calls |-> <<>>]

\* context.registerFunctionTool({name: toolId, ...})
RegisterMcpTool(st, name, t) ==
  LET id == ToolId(name, t)
  IN [st EXCEPT !.host = @ \cup {id},
                !.calls = Append(@, [kind |-> "register", id |-> id, was |-> id \in st.host])]

\* context.unregisterFunctionTool(toolId)
UnregisterFunctionTool(st, id) ==
  [st EXCEPT !.host = @ \ {id},
             !.calls = Append(@, [kind |-> "unregister", id |-> id, was |-> id \in st.host])]

\* A fetch() of a plugin route (list, add, delete, disabled; start, stop,
\* list-tools, reload-tools of a server), with whether the answer was OK.
Request(st, kind, name, ok) ==
  [st EXCEPT !.calls = Append(@, [kind |-> kind, id |-> name, ok |-> ok])]

\* What GET /servers may yield: an OK response with the configured servers,
\* or a response that is not OK.
ListAnswers ==
  {[ok |-> TRUE, servers |-> S] : S \in SUBSET ServerNames}
    \cup {[ok |-> FALSE, servers |-> {}]}

\* getServers(): the body of an OK response, [] for any other.
GetServers(answer) == IF answer.ok THEN answer.servers ELSE {}

\* #fetchTools(serverName): GET .../list-tools; the answer, or [] when there
\* is none, always replaces the cache entry.
FetchTools(st, name, resp) ==
  LET tools == IF resp.ok THEN resp.tools ELSE <<>>
  IN [st EXCEPT !.tools = MapSet(@, name, tools),
                !.calls = Append(@, [kind |-> "list-tools", id |-> name,
                                     ok |-> resp.ok, tools |-> tools])]

RECURSIVE RegisterFrom(_, _, _)
RegisterFrom(st, name, i) ==
  IF i > Len(ToolSeq) THEN st
  ELSE LET t == ToolSeq[i]
           on == t \in DOMAIN st.tools[name] /\ Truthy(st.tools[name][t])
       IN RegisterFrom(IF on THEN RegisterMcpTool(st, name, t) ELSE st, name, i + 1)

\* registerTools(name) without its filter: every cached tool.
RegisterToolsAll(st, name) ==
  IF name \in DOMAIN st.tools
  THEN LET all == [st EXCEPT !.tools[name] = [t \in DOMAIN @ |-> "true"]]
       IN [RegisterFrom(all, name, 1) EXCEPT !.tools = st.tools]
  ELSE st

\* registerTools(name): the cached tools whose _enabled is truthy.
RegisterTools(st, name) ==
  IF name \in DOMAIN st.tools THEN RegisterFrom(st, name, 1) ELSE st

RECURSIVE UnregisterFrom(_, _, _, _)
UnregisterFrom(st, name, tools, i) ==
  IF i > Len(ToolSeq) THEN st
  ELSE LET t == ToolSeq[i]
       IN UnregisterFrom(IF t \in DOMAIN tools
                         THEN UnregisterFunctionTool(st, ToolId(name, t)) ELSE st,
                         name, tools, i + 1)

\* #unregisterServerTools(serverName): every cached tool, then the cache entry.
UnregisterServerTools(st, name) ==
  LET tools == IF name \in DOMAIN st.tools THEN st.tools[name] ELSE <<>>
      un == UnregisterFrom(st, name, tools, 1)
  IN [un EXCEPT !.tools = MapDelete(@, name)]

\* connect(name, config): POST .../start; the map entry only on response.ok.
ConnectServer(st, name, startOk) ==
  LET sent == Request(st, "connect", name, startOk)
  IN IF startOk THEN [sent EXCEPT !.connected = @ \cup {name}] ELSE sent

\* disconnect(name): POST .../stop; on a non-OK response or a thrown fetch
\* it returns false before any cleanup.
DisconnectServer(st, name, stopOk) ==
  LET sent == Request(st, "disconnect", name, stopOk)
  IN IF stopOk
     THEN UnregisterServerTools([sent EXCEPT !.connected = @ \ {name}], name)
     ELSE sent

\* The block shared by handleTools, addServer and updateDisabledServers:
\* fetch the tools unless cached, then register them.
FetchAndRegister(st, name, resp) ==
  RegisterTools(IF name \in DOMAIN st.tools THEN st ELSE FetchTools(st, name, resp), name)

RECURSIVE UpdateFrom(_, _, _, _, _)
UpdateFrom(st, name, disabledTools, sync, i) ==
  IF i > Len(ToolSeq) THEN st
  ELSE LET t == ToolSeq[i]
       IN IF t \notin DOMAIN st.tools[name]
          THEN UpdateFrom(st, name, disabledTools, sync, i + 1)
          ELSE LET wasEnabled == Truthy(st.tools[name][t])
                   nowEnabled == t \notin disabledTools
                   set == [st EXCEPT !.tools[name][t] =
                                       IF nowEnabled THEN "true" ELSE "false"]
                   next == IF sync /\ wasEnabled /\ ~nowEnabled
                           THEN UnregisterFunctionTool(set, ToolId(name, t))
                           ELSE IF sync /\ ~wasEnabled /\ nowEnabled
                           THEN RegisterMcpTool(set, name, t)
                           ELSE set
               IN UpdateFrom(next, name, disabledTools, sync, i + 1)

\* updateDisabledTools as it would be without wasEnabled: the new flags, and
\* every tool now enabled registered again.
UpdateToolsRegisterAll(st, name, disabledTools) ==
  IF name \in DOMAIN st.tools
  THEN LET set == [st EXCEPT !.tools[name] =
                      [t \in DOMAIN @ |-> IF t \in disabledTools THEN "false" ELSE "true"]]
       IN IF mcpEnabled /\ name \in st.connected THEN RegisterFrom(set, name, 1) ELSE set
  ELSE st

\* updateDisabledTools past the POST: every cached tool gets its new flag, and
\* a flip is mirrored to the host while MCP is enabled and the server connected.
UpdateTools(st, name, disabledTools) ==
  IF name \in DOMAIN st.tools
  THEN UpdateFrom(st, name, disabledTools, mcpEnabled /\ name \in st.connected, 1)
  ELSE st

\* The handler that is suspended in its loop over servers, if any.
Idle == [op |-> "idle", rest |-> {}, disabled |-> {}, ok |-> TRUE]
Task(op, rest, disabled, ok) == [op |-> op, rest |-> rest, disabled |-> disabled, ok |-> ok]

\* The handler step that ran last: its name, its server and set arguments,
\* what it returned, and whether it repeats the step before it (same handler,
\* same arguments, that one having returned true).
Done(op, server, set, ok) ==
  [op |-> op, server |-> server, set |-> set, ok |-> ok,
   again |-> lastOp.ok /\ lastOp.op = op /\ lastOp.server = server /\ lastOp.set = set]

\* The record of an updateDisabledServers step: like Done's, with the servers
\* the run listed, whether the run repeats the run before it, and whether a
\* connect or disconnect of the run has returned false so far.
DoneRun(op, server, set, ok, listed, repeat, failed) ==
  [op |-> op, server |-> server, set |-> set, ok |-> ok, again |-> FALSE,
   listed |-> listed, repeat |-> repeat, failed |-> failed]

\* The record of a getServerTools call: Done's, with what the call returned.
DoneTools(name, returned) ==
  [op |-> "getServerTools", server |-> name, set |-> {}, ok |-> TRUE,
   again |-> Done("getServerTools", name, {}, TRUE).again, returned |-> returned]

\* A handler step ends: the manager's state, the host and the step's record.
Commit(st, t, d) ==
  /\ connectedServers' = st.connected
  /\ serverTools' = st.tools
  /\ hostTools' = st.host
  /\ calls' = st.calls
  /\ task' = t
  /\ lastOp' = d
  /\ UNCHANGED <<channelVars, sseVars, handlerVars>>

\* The #mcp_enabled change handler turned on: the setting, then
\* handleTools(true) up to its loop over the servers getServers() listed as
\* enabled.
EnableMcp(answer) ==
  /\ task = Idle
  /\ ~mcpEnabled
  /\ mcpEnabled' = TRUE
  /\ LET listed == GetServers(answer)
     IN Commit(Request(Locals, "list", "", answer.ok),
               IF listed = {} THEN Idle ELSE Task("handleTools", listed, {}, TRUE),
               Done("enable", "", {}, TRUE))

\* The answers the plugin may give a handler: an OK response or none (a
\* non-OK status or a thrown fetch), asked only where the handler asks.
Answers(asked) == IF asked THEN BOOLEAN ELSE {TRUE}
ToolAnswers(name, asked) ==
  IF asked THEN ToolResponses(name) ELSE {[ok |-> FALSE, tools |-> <<>>]}

\* One round of handleTools(true)'s loop: connect unless connected, fetch
\* unless cached, register.
HandleToolsStep(name) ==
  /\ task.op = "handleTools"
  /\ name \in task.rest
  /\ \E startOk \in Answers(name \notin connectedServers),
        resp \in ToolAnswers(name, name \notin DOMAIN serverTools) :
       LET c == IF name \in connectedServers THEN Locals
                ELSE ConnectServer(Locals, name, startOk)
           rest == task.rest \ {name}
       IN Commit(FetchAndRegister(c, name, resp),
                 IF rest = {} THEN Idle ELSE [task EXCEPT !.rest = rest],
                 Done("handleTools", name, {}, TRUE))
  /\ UNCHANGED mcpEnabled

\* The #mcp_enabled change handler turned off: the setting, then
\* handleTools(false) up to its loop over getConnectedServers().
DisableMcp ==
  /\ task = Idle
  /\ mcpEnabled
  /\ mcpEnabled' = FALSE
  /\ Commit(Locals,
            IF connectedServers = {} THEN Idle
            ELSE Task("handleToolsOff", connectedServers, {}, TRUE),
            Done("disable", "", {}, TRUE))

\* One round of handleTools(false)'s loop: disconnect(serverName).
HandleToolsOffStep(name) ==
  /\ task.op = "handleToolsOff"
  /\ name \in task.rest
  /\ \E stopOk \in BOOLEAN :
       LET rest == task.rest \ {name}
       IN Commit(DisconnectServer(Locals, name, stopOk),
                 IF rest = {} THEN Idle ELSE [task EXCEPT !.rest = rest],
                 Done("disconnect", name, {}, stopOk))
  /\ UNCHANGED mcpEnabled

\* addServer(name, config)
AddServer(name) ==
  /\ task = Idle
  /\ \E addOk \in BOOLEAN :
       LET added == Request(Locals, "add", name, addOk)
       IN IF addOk /\ mcpEnabled
          THEN \E startOk \in BOOLEAN,
                  resp \in ToolAnswers(name, name \notin DOMAIN serverTools) :
                 Commit(FetchAndRegister(ConnectServer(added, name, startOk), name, resp),
                        Idle, Done("addServer", name, {}, TRUE))
          ELSE Commit(added, Idle, Done("addServer", name, {}, addOk))
  /\ UNCHANGED mcpEnabled

\* deleteServer(name): disconnect when connected, then DELETE.
DeleteServer(name) ==
  /\ task = Idle
  /\ \E stopOk \in Answers(name \in connectedServers), deleteOk \in BOOLEAN :
       Commit(Request(IF name \in connectedServers
                      THEN DisconnectServer(Locals, name, stopOk)
                      ELSE Locals,
                      "delete", name, deleteOk),
              Idle, Done("deleteServer", name, {}, deleteOk))
  /\ UNCHANGED mcpEnabled

\* Whether a run of updateDisabledServers with these arguments, listing these
\* servers, repeats the handler that ran last: that one was a run of
\* updateDisabledServers too, returned true, and had the same disabled set
\* and the same servers listed.
Repeats(disabledServers, listed) ==
  /\ lastOp.op \in {"updateDisabledServers", "updateDisabledServersStep"}
  /\ lastOp.ok
  /\ lastOp.set = disabledServers
  /\ lastOp.listed = listed

\* Whether a connect or disconnect among these calls returned false.
Refused(c) ==
  \E i \in DOMAIN c : c[i].kind \in {"connect", "disconnect"} /\ ~c[i].ok

\* updateDisabledServers(disabledServers) up to its loop: the POST, then
\* getServers().
UpdateDisabledServers(disabledServers) ==
  /\ task = Idle
  /\ \E postOk \in BOOLEAN :
       LET posted == Request(Locals, "disabled", "", postOk)
       IN IF postOk
          THEN \E answer \in ListAnswers :
                 LET listed == GetServers(answer)
                 IN Commit(Request(posted, "list", "", answer.ok),
                           IF listed = {} THEN Idle
                           ELSE Task("updateDisabledServers", listed, disabledServers, TRUE),
                           DoneRun("updateDisabledServers", "", disabledServers, TRUE,
                                   listed, Repeats(disabledServers, listed), FALSE))
          ELSE Commit(posted, Idle,
                      DoneRun("updateDisabledServers", "", disabledServers, FALSE,
                              {}, FALSE, FALSE))
  /\ UNCHANGED mcpEnabled

\* One round of updateDisabledServers' loop.
UpdateDisabledServersStep(name) ==
  /\ task.op = "updateDisabledServers"
  /\ name \in task.rest
  /\ LET isDisabled == name \in task.disabled
         isConnected == name \in connectedServers
         shouldBeConnected == ~isDisabled /\ mcpEnabled
         rest == task.rest \ {name}
     IN \E stopOk \in Answers(~shouldBeConnected /\ isConnected),
           startOk \in Answers(shouldBeConnected /\ ~isConnected),
           resp \in ToolAnswers(name, shouldBeConnected /\ ~isConnected
                                      /\ name \notin DOMAIN serverTools) :
          LET st == IF ~shouldBeConnected /\ isConnected
                    THEN DisconnectServer(Locals, name, stopOk)
                    ELSE IF shouldBeConnected /\ ~isConnected
                    THEN FetchAndRegister(ConnectServer(Locals, name, startOk), name, resp)
                    ELSE Locals
          IN Commit(st,
                    IF rest = {} THEN Idle ELSE [task EXCEPT !.rest = rest],
                    DoneRun("updateDisabledServersStep", name, task.disabled, TRUE,
                            lastOp.listed, lastOp.repeat,
                            lastOp.failed \/ Refused(st.calls)))
  /\ UNCHANGED mcpEnabled

\* What getServerTools hands its caller: a tool list, or undefined.
Returned(tools) == [defined |-> TRUE, tools |-> tools]
Undefined == [defined |-> FALSE, tools |-> <<>>]

\* getServerTools(serverName), were the cache not looked at first.
GetServerToolsAlwaysFetches(name) ==
  /\ task = Idle
  /\ \E resp \in ToolResponses(name) :
       LET st == FetchTools(Locals, name, resp)
       IN Commit(st, Idle,
                 DoneTools(name, IF DOMAIN st.tools[name] # {}
                                 THEN Returned(st.tools[name]) ELSE Undefined))
  /\ UNCHANGED mcpEnabled

\* getServerTools(serverName): the cache entry, else a fetch and, when the
\* fetch brought a tool, the new cache entry.
GetServerTools(name) ==
  /\ task = Idle
  /\ IF name \in DOMAIN serverTools
     THEN Commit(Locals, Idle, DoneTools(name, Returned(serverTools[name])))
     ELSE \E resp \in ToolResponses(name) :
            LET st == FetchTools(Locals, name, resp)
            IN Commit(st, Idle,
                      DoneTools(name, IF DOMAIN st.tools[name] # {}
                                      THEN Returned(st.tools[name]) ELSE Undefined))
  /\ UNCHANGED mcpEnabled

\* updateDisabledTools, were the cache updated before the response is looked
\* at: a refused POST returns false with the new flags already applied.
UpdateDisabledToolsUnchecked(name, disabledTools) ==
  /\ task = Idle
  /\ \E postOk \in BOOLEAN :
       Commit(UpdateTools(Locals, name, disabledTools),
              Idle, Done("updateDisabledTools", name, disabledTools, postOk))
  /\ UNCHANGED mcpEnabled

\* updateDisabledTools(serverName, disabledTools)
UpdateDisabledTools(name, disabledTools) ==
  /\ task = Idle
  /\ \E postOk \in BOOLEAN :
       Commit(IF postOk THEN UpdateTools(Locals, name, disabledTools) ELSE Locals,
              Idle, Done("updateDisabledTools", name, disabledTools, postOk))
  /\ UNCHANGED mcpEnabled

\* reloadAllTools() up to its loop: getServers().
ReloadAllTools(answer) ==
  /\ task = Idle
  /\ LET listed == GetServers(answer)
     IN Commit(Request(Locals, "list", "", answer.ok),
               IF listed = {} THEN Idle ELSE Task("reloadAllTools", listed, {}, TRUE),
               Done("reloadAllTools", "", {}, TRUE))
  /\ UNCHANGED mcpEnabled

\* One round of reloadAllTools' loop, were a refused POST to end the loop:
\* the servers left are not visited and false is returned at once.
ReloadStepAborts(name) ==
  /\ task.op = "reloadAllTools"
  /\ name \in task.rest
  /\ \E reloadOk \in BOOLEAN :
       \E resp \in ToolAnswers(name, reloadOk) :
         LET rest == task.rest \ {name}
             allSuccess == task.ok /\ reloadOk
             sent == Request(Locals, "reload", name, reloadOk)
         IN Commit(IF reloadOk THEN RegisterTools(FetchTools(sent, name, resp), name)
                   ELSE sent,
                   IF rest = {} \/ ~reloadOk THEN Idle
                   ELSE [task EXCEPT !.rest = rest, !.ok = allSuccess],
                   Done("reloadStep", name, {}, allSuccess))
  /\ UNCHANGED mcpEnabled

\* One round of reloadAllTools' loop: POST .../reload-tools, then re-fetch
\* and re-register; allSuccess is cleared when the POST is refused or throws.
ReloadStep(name) ==
  /\ task.op = "reloadAllTools"
  /\ name \in task.rest
  /\ \E reloadOk \in BOOLEAN :
       \E resp \in ToolAnswers(name, reloadOk) :
         LET rest == task.rest \ {name}
             allSuccess == task.ok /\ reloadOk
             sent == Request(Locals, "reload", name, reloadOk)
         IN Commit(IF reloadOk THEN RegisterTools(FetchTools(sent, name, resp), name)
                   ELSE sent,
                   IF rest = {} THEN Idle
                   ELSE [task EXCEPT !.rest = rest, !.ok = allSuccess],
                   Done("reloadStep", name, {}, allSuccess))
  /\ UNCHANGED mcpEnabled

\* ------------------------------------------------------------ manager claims

\* The ids of the cached tools whose flag is set, over the connected servers.
EnabledToolIds ==
  {ToolId(p[1], p[2]) :
     p \in {q \in ServerNames \X ToolNames :
              /\ q[1] \in connectedServers
              /\ q[1] \in DOMAIN serverTools
              /\ q[2] \in DOMAIN serverTools[q[1]]
              /\ Truthy(serverTools[q[1]][q[2]])}}

\* The ids a handler step passed to the host's register or unregister.
CallIds(c, kind) == {c[i].id : i \in {j \in DOMAIN c : c[j].kind = kind}}

\* C2: whenever no handler is under way, the tools registered with the host
\* are exactly the enabled tools of the connected servers.
C2_RegisteredIffConnectedEnabled ==
  task = Idle => hostTools = EnabledToolIds

\* C3: after disconnect(name), whatever the stop request answered, the server
\* is not in the connected map and none of its tool ids is registered.
C3_DisconnectAlwaysCleans ==
  lastOp.op = "disconnect" =>
    /\ lastOp.server \notin connectedServers
    /\ \A t \in ToolNames : ToolId(lastOp.server, t) \notin hostTools

\* C9: updateDisabledTools run a second time in a row for the same server with
\* the same disabled set issues no host call.
C9_SecondApplicationSilent ==
  (lastOp.op = "updateDisabledTools" /\ lastOp.again) => calls = <<>>

\* C9 witness: a second application on a connected server, MCP enabled, whose
\* cache holds an enabled, registered tool and a disabled one.
C9_Witness ==
  /\ lastOp.op = "updateDisabledTools" /\ lastOp.again /\ lastOp.ok
  /\ mcpEnabled
  /\ lastOp.server \in connectedServers
  /\ lastOp.server \in DOMAIN serverTools
  /\ lastOp.set # {}
  /\ \E t \in DOMAIN serverTools[lastOp.server] :
       /\ t \in lastOp.set
       /\ serverTools[lastOp.server][t] = "false"
  /\ \E t \in DOMAIN serverTools[lastOp.server] :
       /\ t \notin lastOp.set
       /\ serverTools[lastOp.server][t] = "true"
       /\ ToolId(lastOp.server, t) \in hostTools
  /\ calls = <<>>

\* C10: a successful updateDisabledTools on a connected server registers
\* exactly the cached tools that go from disabled to enabled, unregisters
\* exactly those that go from enabled to disabled, each once, and calls the
\* host for no other tool.
C10_ExactlyTheFlips ==
  [][(/\ lastOp'.op = "updateDisabledTools"
      /\ lastOp'.ok
      /\ lastOp'.server \in connectedServers
      /\ lastOp'.server \in DOMAIN serverTools)
     => LET name == lastOp'.server
            tools == serverTools[name]
            up == {ToolId(name, t) :
                     t \in {u \in DOMAIN tools : ~Truthy(tools[u]) /\ u \notin lastOp'.set}}
            down == {ToolId(name, t) :
                       t \in {u \in DOMAIN tools : Truthy(tools[u]) /\ u \in lastOp'.set}}
        IN /\ CallIds(calls', "register") = up
           /\ CallIds(calls', "unregister") = down
           /\ Len(calls') = Cardinality(up) + Cardinality(down)]_vars

\* C11: no handler step passes to the host's register an id that is
\* registered at the moment of the call.
C11_NoDoubleRegistration ==
  \A i \in DOMAIN calls : calls[i].kind = "register" => ~calls[i].was

\* C12: no handler step passes to the host's unregister an id that is not
\* registered at the moment of the call.
C12_NoUnregisterOfUnregistered ==
  \A i \in DOMAIN calls : calls[i].kind = "unregister" => calls[i].was

\* What addServer hands its caller: a boolean; every error is caught inside
\* and turned into false, so nothing is ever thrown.
AddServerResult(returned) == [returned |-> returned, thrown |-> "none"]

\* The submit-server click handler's verdict on an addServer call: success
\* when the call returns, a warning when it throws an error carrying
\* isConnectError, an error on any other throw.
SubmitTag(result) ==
  IF result.thrown = "none" THEN "success"
  ELSE IF result.thrown = "connectError" THEN "warning"
  ELSE "error"

\* C13: an addServer that the registry accepted, with MCP enabled, and that
\* leaves the server unconnected is reported as a connection warning.
C13_AddReportsConnectWarning ==
  (/\ lastOp.op = "addServer"
   /\ lastOp.ok
   /\ mcpEnabled
   /\ lastOp.server \notin connectedServers)
  => SubmitTag(AddServerResult(lastOp.ok)) = "warning"

\* Whether a run of updateDisabledServers has returned: its last round is
\* done, or it listed no server.
RunReturned ==
  /\ task = Idle
  /\ lastOp.op \in {"updateDisabledServers", "updateDisabledServersStep"}
  /\ lastOp.ok

\* C22: when updateDisabledServers has persisted the disabled set, listed
\* the servers and returned, every listed server is connected exactly when it
\* should be: not disabled, with MCP enabled.
C22_ReconcileReachesTarget ==
  RunReturned =>
    \A name \in lastOp.listed :
      name \in connectedServers <=> (name \notin lastOp.set /\ mcpEnabled)

\* C23: a run of updateDisabledServers that repeats the run before it (same
\* disabled set, same servers listed, the first having returned true) issues
\* no connect, disconnect, register or unregister and changes nothing, in
\* whatever order it visits the servers.
C23_ReconcileConvergent ==
  [][(lastOp'.op = "updateDisabledServersStep" /\ lastOp'.repeat) =>
       /\ \A i \in DOMAIN calls' :
            calls'[i].kind \notin {"connect", "disconnect", "register", "unregister"}
       /\ connectedServers' = connectedServers
       /\ serverTools' = serverTools
       /\ hostTools' = hostTools]_vars

\* Whether a reload-tools request among these calls was refused or threw.
ReloadRefused(c) == \E i \in DOMAIN c : c[i].kind = "reload" /\ ~c[i].ok

C26_CachedToolsNoRequest ==
  [][lastOp'.op = "getServerTools" =>
       LET name == lastOp'.server
       IN /\ connectedServers' = connectedServers
          /\ hostTools' = hostTools
          /\ IF name \in DOMAIN serverTools
             THEN /\ calls' = <<>>
                  /\ serverTools' = serverTools
                  /\ lastOp'.returned = Returned(serverTools[name])
             ELSE /\ Len(calls') = 1
                  /\ calls'[1].kind = "list-tools"
                  /\ calls'[1].id = name
                  /\ serverTools' = MapSet(serverTools, name, calls'[1].tools)
                  /\ lastOp'.returned.defined =>
                       lastOp'.returned.tools = calls'[1].tools]_vars

\* C26 witness: getServerTools has returned a cached list that holds a tool,
\* without a request.
C26_Witness ==
  /\ lastOp.op = "getServerTools"
  /\ calls = <<>>
  /\ lastOp.server \in DOMAIN serverTools
  /\ lastOp.returned = Returned(serverTools[lastOp.server])
  /\ DOMAIN lastOp.returned.tools # {}

\* C25: a round of updateDisabledServers whose connect or disconnect failed
\* is followed by the rounds of the remaining servers, and a run in which a
\* round failed does not return success.
C25_ReconcileAggregatesFailures ==
  [][lastOp'.op = "updateDisabledServersStep" =>
       /\ task'.rest = task.rest \ {lastOp'.server}
       /\ (task' = Idle /\ lastOp'.failed) => ~lastOp'.ok]_vars

\* Whether the handler step that ran last called registerTools(lastOp.server):
\* a round of handleTools(true), an accepted addServer with MCP enabled, a
\* round of updateDisabledServers that connected, an accepted round of
\* reloadAllTools.
RanRegisterTools ==
  \/ lastOp.op = "handleTools"
  \/ lastOp.op = "addServer" /\ lastOp.ok /\ mcpEnabled
  \/ lastOp.op = "updateDisabledServersStep"
       /\ \E i \in DOMAIN calls : calls[i].kind = "connect"
  \/ lastOp.op = "reloadStep"
       /\ \E i \in DOMAIN calls : calls[i].kind = "reload" /\ calls[i].ok

\* The register calls among these calls.
RegisterCalls(c) == {i \in DOMAIN c : c[i].kind = "register"}

\* C27: a step that called registerTools(name) passed to the host's register
\* exactly the cached tools of that server whose enabled flag is true, each
\* once, and they are registered after it.
C27_RegistersExactlyEnabled ==
  RanRegisterTools =>
    LET name == lastOp.server
        enabled == {ToolId(name, t) :
                      t \in {u \in DOMAIN serverTools[name] : serverTools[name][u] = "true"}}
    IN /\ CallIds(calls, "register") = enabled
       /\ Cardinality(RegisterCalls(calls)) = Cardinality(enabled)
       /\ enabled \subseteq hostTools

\* C27 witness: a round of handleTools(true) on a server whose cache holds an
\* enabled tool and one that is not, with the one register call.
C27_Witness ==
  /\ lastOp.op = "handleTools"
  /\ lastOp.server \in DOMAIN serverTools
  /\ \E t, u \in DOMAIN serverTools[lastOp.server] :
       /\ serverTools[lastOp.server][t] = "true"
       /\ serverTools[lastOp.server][u] = "false"
       /\ CallIds(calls, "register") = {ToolId(lastOp.server, t)}
  /\ Cardinality(RegisterCalls(calls)) = 1

\* C28: every tool of a list the step fetched that the answer did not mark
\* disabled is enabled in the cache, and registered when the step went on to
\* registerTools: a tool that came without a marker counts as enabled.
C28_FetchedToolsDefaultEnabled ==
  \A i \in DOMAIN calls :
    calls[i].kind = "list-tools" =>
      \A t \in DOMAIN calls[i].tools :
        calls[i].tools[t] # "false" =>
          /\ Truthy(serverTools[calls[i].id][t])
          /\ RanRegisterTools => ToolId(calls[i].id, t) \in hostTools

\* The registry requests: GET /servers, POST /servers, DELETE /servers/{name},
\* POST /servers/disabled.
RegistryRoutes == {"list", "add", "delete", "disabled"}

\* What getServers, addServer, deleteServer and updateDisabledServers hand
\* their caller when the plugin answers their registry request with a status:
\* getServers the listed servers or [], the others a boolean; none throws.
RegistryResult(route, status) ==
  IF route = "list"
  THEN [returned |-> GetServers([ok |-> ResponseOk(status), servers |-> ServerNames]),
        thrown |-> "none"]
  ELSE IF route = "add" THEN AddServerResult(ResponseOk(status))
  ELSE [returned |-> ResponseOk(status), thrown |-> "none"]

\* The error kind the registry boundary is to raise for a status that is not
\* 2xx.
TypedError(status) ==
  IF status = 404 THEN "PluginNotInstalled"
  ELSE IF status = 500 THEN "PluginMisconfigured"
  ELSE "RequestFailed"

\* C29: whenever a registry request was answered with a status that is not
\* 2xx, the caller gets the typed error of that status: PluginNotInstalled
\* for 404, PluginMisconfigured for 500, RequestFailed for any other.
C29_RegistryErrorsTyped ==
  \A i \in DOMAIN calls :
    (calls[i].kind \in RegistryRoutes /\ ~calls[i].ok) =>
      \A status \in Statuses :
        ~ResponseOk(status) =>
          RegistryResult(calls[i].kind, status).thrown = TypedError(status)

\* C32: reloadAllTools visits connected servers only: the server of a round
\* of its loop, to which the round has sent the reload request and for which it
\* may have fetched and registered tools, is in the connected map.
C32_ReloadOnlyConnected ==
  lastOp.op = "reloadStep" =>
    /\ lastOp.server \in connectedServers
    /\ \A i \in DOMAIN calls :
         calls[i].kind \in {"reload", "list-tools"} => calls[i].id \in connectedServers

\* The ids of the tools the other servers have cached: with names such as
\* "s"/"t_a" and "s_t"/"a" one id may stand for tools of two servers.
IdsOfOthers(name) ==
  {ToolId(p[1], p[2]) :
     p \in {q \in (ServerNames \ {name}) \X ToolNames :
              q[1] \in DOMAIN serverTools /\ q[2] \in DOMAIN serverTools[q[1]]}}

\* The ids a server's tools can have that are registered with the host and
\* belong to no tool another server has cached.
RegisteredOf(name) ==
  {ToolId(name, t) : t \in ToolNames} \cap (hostTools \ IdsOfOthers(name))

\* C33: after a round of reloadAllTools that reloaded a connected server, no
\* tool that is absent from the refreshed list of that server is registered
\* with the host.
C33_ReloadLeavesNoStaleTool ==
  (lastOp.op = "reloadStep"
     /\ lastOp.server \in connectedServers
     /\ \E i \in DOMAIN calls : calls[i].kind = "reload" /\ calls[i].ok) =>
    \A t \in ToolNames :
      t \notin DOMAIN serverTools[lastOp.server] =>
        ToolId(lastOp.server, t) \notin RegisteredOf(lastOp.server)

\* C38: after deleteServer(name) returned true the server is not in the
\* connected map and none of its tools is registered with the host.
C38_DeletedServerIsGone ==
  (lastOp.op = "deleteServer" /\ lastOp.ok) =>
    /\ lastOp.server \notin connectedServers
    /\ RegisteredOf(lastOp.server) = {}

\* C39: an updateDisabledTools call whose POST .../disabled-tools was refused
\* or threw returns false, changes no flag in the cache and issues no host
\* call.
C39_PersistFailureChangesNothing ==
  [][(lastOp'.op = "updateDisabledTools" /\ ~lastOp'.ok) =>
       /\ serverTools' = serverTools
       /\ hostTools' = hostTools
       /\ connectedServers' = connectedServers
       /\ calls' = <<>>]_vars

\* C39 witness: a refused update for a connected server, MCP enabled, whose
\* cache holds an enabled registered tool the call wanted disabled.
C39_Witness ==
  /\ lastOp.op = "updateDisabledTools" /\ ~lastOp.ok
  /\ mcpEnabled
  /\ lastOp.server \in connectedServers
  /\ lastOp.server \in DOMAIN serverTools
  /\ \E t \in lastOp.set :
       /\ t \in DOMAIN serverTools[lastOp.server]
       /\ Truthy(serverTools[lastOp.server][t])
       /\ ToolId(lastOp.server, t) \in hostTools

\* ============================================ MCPClient with SSE transports

ConnectCalls == 1..MaxCalls

\* A connect call: where it waits ("start" for POST .../start, "handshake"
\* for client.connect()), its server, the McpSseClient it created, and
\* whether the server was in #connectedServers when the call began.
NoCall == [pc |-> "none", name |-> "", client |-> 0, wasConnected |-> FALSE]

\* The open McpSseClient objects made for a server.
OpenFor(name) == {c \in sseOpen : sseMade[c] = name}

\* connect(name, config) up to its first await: the POST .../start is sent.
SseConnect(k, name) ==
  /\ sseCalls[k].pc = "none"
  /\ sseCalls' = [sseCalls EXCEPT ![k] =
                    [pc |-> "start", name |-> name, client |-> 0,
                     wasConnected |-> name \in connectedServers]]
  /\ UNCHANGED <<channelVars, managerVars, connectedServers, sseClients, sseMade, sseOpen>>

\* POST .../start answers without success (or throws): connect returns false.
SseStartFails(k) ==
  /\ sseCalls[k].pc = "start"
  /\ sseCalls' = [sseCalls EXCEPT ![k] = NoCall]
  /\ UNCHANGED <<channelVars, managerVars, connectedServers, sseClients, sseMade, sseOpen>>

\* POST .../start answers success: the map entry, then createSseConnection up
\* to its await: return at once when #sseClients has the name, else a new
\* McpSseClient whose connect() opens the EventSource and posts initialize.
SseStarted(k) ==
  /\ sseCalls[k].pc = "start"
  /\ connectedServers' = connectedServers \cup {sseCalls[k].name}
  /\ IF sseCalls[k].name \in DOMAIN sseClients
     THEN /\ sseCalls' = [sseCalls EXCEPT ![k] = NoCall]
          /\ UNCHANGED <<sseMade, sseOpen>>
     ELSE /\ Len(sseMade) < MaxClients
          /\ sseMade' = Append(sseMade, sseCalls[k].name)
          /\ sseOpen' = sseOpen \cup {Len(sseMade) + 1}
          /\ sseCalls' = [sseCalls EXCEPT ![k].pc = "handshake",
                                          ![k].client = Len(sseMade) + 1]
  /\ UNCHANGED <<channelVars, managerVars, sseClients>>

\* client.connect() returns true: #sseClients.set(serverName, client).
SseHandshakeOk(k) ==
  /\ sseCalls[k].pc = "handshake"
  /\ sseClients' = MapSet(sseClients, sseCalls[k].name, sseCalls[k].client)
  /\ sseCalls' = [sseCalls EXCEPT ![k] = NoCall]
  /\ UNCHANGED <<channelVars, managerVars, connectedServers, sseMade, sseOpen>>

\* client.connect() returns false (the initialize POST failed): the client is
\* dropped as it is, createSseConnection returns false and connect true.
SseHandshakeFails(k) ==
  /\ sseCalls[k].pc = "handshake"
  /\ sseCalls' = [sseCalls EXCEPT ![k] = NoCall]
  /\ UNCHANGED <<channelVars, managerVars, connectedServers, sseClients, sseMade, sseOpen>>

\* An open client's EventSource reports an error: the client closes itself.
SseError(c) ==
  /\ c \in sseOpen
  /\ sseOpen' = sseOpen \ {c}
  /\ UNCHANGED <<channelVars, managerVars, connectedServers, sseClients, sseMade, sseCalls>>

\* disconnect(name): closeSseConnection when #sseClients has the name, then
\* POST .../stop, and on success the map entry goes.
SseDisconnect(name, stopOk) ==
  /\ IF name \in DOMAIN sseClients
     THEN /\ sseOpen' = sseOpen \ {sseClients[name]}
          /\ sseClients' = MapDelete(sseClients, name)
     ELSE UNCHANGED <<sseOpen, sseClients>>
  /\ connectedServers' = IF stopOk THEN connectedServers \ {name} ELSE connectedServers
  /\ UNCHANGED <<channelVars, managerVars, sseMade, sseCalls>>

\* ---------------------------------------------------------------- SSE claims

\* C14: at any time at most one open McpSseClient exists for a server name,
\* and #sseClients holds at most one client per name.
C14_OneChannelPerServer ==
  \A name \in ServerNames : Cardinality(OpenFor(name)) <= 1

\* C15: connect(name, config) on a server that is already connected sends no
\* start request.
C15_ConnectIdempotent ==
  \A k \in ConnectCalls : sseCalls[k].pc = "start" => ~sseCalls[k].wasConnected

\* C30: a server is in the connected map only if the open of its channel has
\* succeeded: a client that completed its handshake is stored for it.
C30_ConnectedOnlyAfterOpen ==
  \A name \in connectedServers : name \in DOMAIN sseClients

\* C31: a transport failure on a connected server disconnects it. A stored
\* client stays stored with its EventSource closed only through its error event
\* (disconnect removes the entry as it closes the client), so after that event
\* the server is out of the connected map and has no entry in #sseClients:
\* every stored client is open.
C31_TransportFailureDisconnects ==
  \A name \in ServerNames :
    (name \in DOMAIN sseClients /\ sseClients[name] \notin sseOpen) =>
      /\ name \notin connectedServers
      /\ name \notin DOMAIN sseClients

\* C36: whenever no connect call is under way, #sseClients has an entry for a
\* name only if the name is in the connected map, and every connected server
\* has an entry, also after a refused stop or a failed handshake.
C36_ChannelMapMatchesConnected ==
  (\A k \in ConnectCalls : sseCalls[k].pc = "none") =>
    DOMAIN sseClients = connectedServers

\* ======================================= MCPClient with handlers interleaved

Handlers == 1..MaxHandlers

\* A handler of the manager started by the page: which element started it
\* ("startup" for the call at the end of handleUIChanges), the method it runs,
\* the servers its loop has still to visit, its disabledServers argument, the
\* servers it listed, and what it returns.
NoHandler ==
  [pc |-> "none", by |-> "", op |-> "", rest |-> {}, disabled |-> {}, listed |-> {},
   ok |-> TRUE]

Started == \E k \in Handlers : handlers[k].pc # "none"

\* The record a new handler takes: the first whose handler is not under way.
HandlerReturned(k) == handlers[k].pc # "loop"
HasFreeHandler == \E k \in Handlers : HandlerReturned(k)
FreeHandler == CHOOSE k \in Handlers : HandlerReturned(k) /\ \A j \in Handlers : HandlerReturned(j) => k <= j

\* What getServers() may yield for a handler, asked only where the handler
\* calls it.
ListAnswersIf(asked) == IF asked THEN ListAnswers ELSE {[ok |-> FALSE, servers |-> {}]}

\* The list-tools answers taken for the rounds of interleaved handlers: no
\* usable answer, or the one tool "a" with its flag set.
RoundAnswers(name, asked) ==
  {r \in ToolAnswers(name, asked) : ~r.ok \/ r.tools = [t \in {"a"} |-> "true"]}

\* handleTools(mcpEnabled) up to its loop, the setting agreeing with the
\* argument: the enabled servers of getServers(), or getConnectedServers().
HandleTools(by, enabled, answer) ==
  LET rest == IF enabled THEN GetServers(answer) \ persisted ELSE connectedServers
  IN [pc |-> IF rest = {} THEN "done" ELSE "loop", by |-> by,
      op |-> IF enabled THEN "handleTools" ELSE "handleToolsOff",
      rest |-> rest, disabled |-> {}, listed |-> rest, ok |-> TRUE]

\* The record of handler k after the round for name.
Visited(k, name) ==
  LET rest == handlers[k].rest \ {name}
  IN [handlers EXCEPT ![k].rest = rest,
                      ![k].pc = IF rest = {} THEN "done" ELSE "loop"]

\* A round of a handler ends: the manager's state and the host.
Apply(st) ==
  /\ connectedServers' = st.connected
  /\ serverTools' = st.tools
  /\ hostTools' = st.host
  /\ refused' = (refused \/ Refused(st.calls))
  /\ UNCHANGED <<channelVars, sseVars, calls, task, lastOp>>

\* The page is loaded: the saved setting, then handleTools(settings.enabled).
Startup(saved) ==
  /\ ~Started
  /\ mcpEnabled' = saved
  /\ \E answer \in ListAnswersIf(saved) :
       handlers' = [handlers EXCEPT ![FreeHandler] = HandleTools("startup", saved, answer)]
  /\ UNCHANGED <<channelVars, connectedServers, serverTools, hostTools, calls, task, lastOp,
                 sseVars, persisted, refused>>

\* The #mcp_enabled change handler: the checkbox is disabled while the handler
\* it started runs; the setting is flipped, then handleTools(enabled).
ToggleMcp ==
  /\ Started
  /\ HasFreeHandler
  /\ \A j \in Handlers : ~(handlers[j].pc = "loop" /\ handlers[j].by = "mcp_enabled")
  /\ mcpEnabled' = ~mcpEnabled
  /\ \E answer \in ListAnswersIf(~mcpEnabled) :
       handlers' = [handlers EXCEPT ![FreeHandler] =
                      HandleTools("mcp_enabled", ~mcpEnabled, answer)]
  /\ UNCHANGED <<channelVars, connectedServers, serverTools, hostTools, calls, task, lastOp,
                 sseVars, persisted, refused>>

\* A server toggle's change handler: updateDisabledServers(disabledServers) up
\* to its loop: the POST, which the plugin stores when it accepts it, then
\* getServers().
ToggleServer(disabledServers) ==
  /\ Started
  /\ HasFreeHandler
  /\ \E postOk \in BOOLEAN :
       /\ persisted' = IF postOk THEN disabledServers ELSE persisted
       /\ \E answer \in ListAnswersIf(postOk) :
            LET listed == GetServers(answer)
            IN handlers' = [handlers EXCEPT ![FreeHandler] =
                              [pc |-> IF listed = {} THEN "done" ELSE "loop",
                               by |-> "server-toggle", op |-> "updateDisabledServers",
                               rest |-> listed, disabled |-> disabledServers,
                               listed |-> listed, ok |-> postOk]]
  /\ UNCHANGED <<channelVars, mcpEnabled, connectedServers, serverTools, hostTools, calls,
                 task, lastOp, sseVars, refused>>

\* One round of the loop of a handleTools(true) under way.
HandleToolsRound(k, name) ==
  /\ handlers[k].pc = "loop" /\ handlers[k].op = "handleTools"
  /\ name \in handlers[k].rest
  /\ \E startOk \in Answers(name \notin connectedServers),
        resp \in RoundAnswers(name, name \notin DOMAIN serverTools) :
       Apply(FetchAndRegister(IF name \in connectedServers THEN Locals
                              ELSE ConnectServer(Locals, name, startOk),
                              name, resp))
  /\ handlers' = Visited(k, name)
  /\ UNCHANGED <<mcpEnabled, persisted>>

\* One round of the loop of a handleTools(false) under way.
HandleToolsOffRound(k, name) ==
  /\ handlers[k].pc = "loop" /\ handlers[k].op = "handleToolsOff"
  /\ name \in handlers[k].rest
  /\ \E stopOk \in BOOLEAN : Apply(DisconnectServer(Locals, name, stopOk))
  /\ handlers' = Visited(k, name)
  /\ UNCHANGED <<mcpEnabled, persisted>>

\* One round of the loop of an updateDisabledServers under way.
UpdateRound(k, name) ==
  /\ handlers[k].pc = "loop" /\ handlers[k].op = "updateDisabledServers"
  /\ name \in handlers[k].rest
  /\ LET isDisabled == name \in handlers[k].disabled
         isConnected == name \in connectedServers
         shouldBeConnected == ~isDisabled /\ mcpEnabled
     IN \E stopOk \in Answers(~shouldBeConnected /\ isConnected),
           startOk \in Answers(shouldBeConnected /\ ~isConnected),
           resp \in RoundAnswers(name, shouldBeConnected /\ ~isConnected
                                       /\ name \notin DOMAIN serverTools) :
          Apply(IF ~shouldBeConnected /\ isConnected
                THEN DisconnectServer(Locals, name, stopOk)
                ELSE IF shouldBeConnected /\ ~isConnected
                THEN FetchAndRegister(ConnectServer(Locals, name, startOk), name, resp)
                ELSE Locals)
  /\ handlers' = Visited(k, name)
  /\ UNCHANGED <<mcpEnabled, persisted>>

\* ---------------------------------------------------------- handler claims

\* C34: once two updateDisabledServers calls have both returned true, no start
\* or stop request having been refused, every server both listed is connected
\* exactly when the disabled set the plugin stored last leaves it enabled and
\* MCP is enabled.
C34_ReconcileConvergesInterleaved ==
  (/\ \A k \in Handlers :
        /\ handlers[k].pc = "done"
        /\ handlers[k].op = "updateDisabledServers"
        /\ handlers[k].ok
   /\ ~refused) =>
    \A name \in ServerNames :
      (\A k \in Handlers : name \in handlers[k].listed) =>
        (name \in connectedServers <=> (name \notin persisted /\ mcpEnabled))

\* C37: when MCP is disabled and no handler is under way, no start or stop
\* request having been refused, no server is connected and no tool is
\* registered with the host.
C37_DisabledMeansNothingConnected ==
  (/\ ~mcpEnabled
   /\ Started
   /\ \A k \in Handlers : handlers[k].pc # "loop"
   /\ ~refused) =>
    /\ connectedServers = {}
    /\ hostTools = {}

\* The state after construction: a channel that was never opened, and the
\* manager's empty maps with DEFAULT_SETTINGS.
Init ==
  /\ eventSource = FALSE
  /\ pendingRequests = EmptyMap
  /\ requests = [i \in Slots |-> NoRequest]
  /\ now = 0
  /\ event = Event("init", 0, NoMessage, {})
  /\ mcpEnabled = FALSE
  /\ connectedServers = {}
  /\ serverTools = <<>>
  /\ hostTools = {}
  /\ calls = <<>>
  /\ task = Idle
  /\ lastOp = [op |-> "init", server |-> "", set |-> {}, ok |-> TRUE, again |-> FALSE]
  /\ sseClients = <<>>
  /\ sseMade = <<>>
  /\ sseOpen = {}
  /\ sseCalls = [k \in ConnectCalls |-> NoCall]
  /\ handlers = [k \in Handlers |-> NoHandler]
  /\ persisted = {}
  /\ refused = FALSE

\* ============================================================ specifications

ChannelNext ==
  \/ Connect
  \/ Send("tools/list")
  \/ SendNotConnected
  \/ \E i \in Slots : FetchOk(i)
  \/ \E i \in Slots : FetchFail(i)
  \/ \E m \in Messages : OnMessage(m)
  \/ \E i \in Slots : TimerFire(i)
  \/ Close
  \/ OnError
  \/ Tick

ChannelSpec == Init /\ [][ChannelNext]_vars

ClientNext ==
  \/ \E answer \in ListAnswers : EnableMcp(answer)
  \/ \E name \in ServerNames : HandleToolsStep(name)
  \/ DisableMcp
  \/ \E name \in ServerNames : HandleToolsOffStep(name)
  \/ \E name \in ServerNames : AddServer(name)
  \/ \E name \in ServerNames : DeleteServer(name)
  \/ \E disabledServers \in SUBSET ServerNames : UpdateDisabledServers(disabledServers)
  \/ \E name \in ServerNames : UpdateDisabledServersStep(name)
  \/ \E name \in ServerNames : GetServerTools(name)
  \/ \E name \in ServerNames, disabledTools \in SUBSET ToolNames :
       UpdateDisabledTools(name, disabledTools)
  \/ \E answer \in ListAnswers : ReloadAllTools(answer)
  \/ \E name \in ServerNames : ReloadStep(name)

ClientSpec == Init /\ [][ClientNext]_vars

SseNext ==
  \/ \E k \in ConnectCalls, name \in ServerNames : SseConnect(k, name)
  \/ \E k \in ConnectCalls : SseStartFails(k)
  \/ \E k \in ConnectCalls : SseStarted(k)
  \/ \E k \in ConnectCalls : SseHandshakeOk(k)
  \/ \E k \in ConnectCalls : SseHandshakeFails(k)
  \/ \E c \in 1..MaxClients : SseError(c)
  \/ \E name \in ServerNames, stopOk \in BOOLEAN : SseDisconnect(name, stopOk)

SseSpec == Init /\ [][SseNext]_vars

ConcurrentNext ==
  \/ \E saved \in BOOLEAN : Startup(saved)
  \/ ToggleMcp
  \/ \E disabledServers \in SUBSET ServerNames : ToggleServer(disabledServers)
  \/ \E k \in Handlers, name \in ServerNames : HandleToolsRound(k, name)
  \/ \E k \in Handlers, name \in ServerNames : HandleToolsOffRound(k, name)
  \/ \E k \in Handlers, name \in ServerNames : UpdateRound(k, name)

ConcurrentSpec == Init /\ [][ConcurrentNext]_vars

====
